---- MODULE Spec2Model ----
(***************************************************************************)
(* State-machine model of the findings relay (server(1).js and its         *)
(* comment-stripped twin part_000): the in-memory petFindings array, the   *)
(* lazy cleanupOldFindings compaction, and the four handlers submit,       *)
(* pets (list), stats and clear.  Every handler body runs to completion    *)
(* on Node's single-threaded event loop, so each handler is one action.    *)
(*                                                                         *)
(* Times are milliseconds.  FINDING_EXPIRY_MS keeps its source value; the  *)
(* clock advances in steps of half the expiry so that "exactly expired"    *)
(* (now - timestamp = 15000) is reached.  MAX_FINDINGS is scaled from 100  *)
(* to 2 so that over-capacity stores are reachable.                        *)
(***************************************************************************)
EXTENDS Integers, Sequences, FiniteSets, TLC

VARIABLES
    petFindings,  \* the store: sequence of Finding records
    now,          \* Date.now()
    request,      \* the request handled last (inputs, clock value, what preceded it)
    response,     \* the response sent for it
    before,       \* petFindings as the last handler found it
    prior,        \* the exchange that the last read followed immediately
    inserted,     \* fill scenario: the clock values of the distinct-key submits so far
    watch         \* watch scenario: one submit followed until its pair is written again

vars == <<petFindings, now, request, response, before, prior, inserted, watch>>

----------------------------------------------------------------------------
(* Bounds and program constants *)

MaxTicks == 2

MAX_FINDINGS == 2

FINDING_EXPIRY_MS == 15 * 1000

TickMs == FINDING_EXPIRY_MS \div 2

MaxNow == MaxTicks * TickMs

----------------------------------------------------------------------------
(* JSON values as they arrive in req.body.  One record shape for every     *)
(* value so that values of different JS types stay comparable.             *)

JsVal(t, s, n, it, en) == [type |-> t, str |-> s, num |-> n, items |-> it, entries |-> en]

Undefined == JsVal("undefined", "", 0, <<>>, {})

Str(s) == JsVal("string", s, 0, <<>>, {})

Num(n) == JsVal("number", "", n, <<>>, {})

Arr(it) == JsVal("array", "", 0, it, {})

Obj(en) == JsVal("object", "", 0, <<>>, en)

\* JS truthiness: !v is true for undefined, "" and 0
Truthy(v) ==
    CASE v.type = "undefined" -> FALSE
      [] v.type = "string" -> v.str # ""
      [] v.type = "number" -> v.num # 0
      [] OTHER -> TRUE

IsArray(v) == v.type = "array"

\* rates || {}
RatesOrEmpty(rates) == IF Truthy(rates) THEN rates ELSE Obj({})

\* jobId.substring(0, 8) exists on strings only; on any other truthy value it
\* is undefined and calling it throws a TypeError
SubstringThrows(jobId) == jobId.type # "string"

----------------------------------------------------------------------------
(* Store helpers *)

Finding(jobId, placeId, pets, rates, t) ==
    [jobId |-> jobId, placeId |-> placeId, pets |-> pets,
     rates |-> RatesOrEmpty(rates), timestamp |-> t]

SameKey(f, jobId, placeId) == f.jobId = jobId /\ f.placeId = placeId

\* findIndex comparing jobId only
FindIndexByJob(store, jobId, placeId) ==
    IF \E i \in 1..Len(store) : store[i].jobId = jobId
    THEN CHOOSE i \in 1..Len(store) :
            /\ store[i].jobId = jobId
            /\ \A j \in 1..(i - 1) : store[j].jobId # jobId
    ELSE 0

\* petFindings.findIndex(...): first matching index, 0 standing for -1
FindIndex(store, jobId, placeId) ==
    IF \E i \in 1..Len(store) : SameKey(store[i], jobId, placeId)
    THEN CHOOSE i \in 1..Len(store) :
            /\ SameKey(store[i], jobId, placeId)
            /\ \A j \in 1..(i - 1) : ~SameKey(store[j], jobId, placeId)
    ELSE 0

\* expiry compared in seconds against a clock in milliseconds
NotExpiredSeconds(f, t) == (t - f.timestamp) < FINDING_EXPIRY_MS \div 1000

\* expiry test with <= for <
NotExpiredInclusive(f, t) == (t - f.timestamp) <= FINDING_EXPIRY_MS

NotExpired(f, t) == (t - f.timestamp) < FINDING_EXPIRY_MS

FilterFresh(store, t) == SelectSeq(store, LAMBDA f : NotExpired(f, t))

\* slice(0, n) for slice(-n)
SliceFirst(store, n) ==
    IF Len(store) > n THEN SubSeq(store, 1, n) ELSE store

\* arr.slice(-n) when arr.length > n
SliceLast(store, n) ==
    IF Len(store) > n THEN SubSeq(store, Len(store) - n + 1, Len(store)) ELSE store

\* cleanup that limits before it filters
CleanupLimitFirst(store, t) == FilterFresh(SliceLast(store, MAX_FINDINGS), t)

\* cleanup that shifts one record out whenever the store is at the limit
CleanupShiftsAtLimit(store, t) ==
    IF Len(FilterFresh(store, t)) >= MAX_FINDINGS
    THEN Tail(FilterFresh(store, t))
    ELSE FilterFresh(store, t)

\* cleanup without the MAX_FINDINGS limit
CleanupExpiryOnly(store, t) == FilterFresh(store, t)

CleanupOldFindings(store, t) == SliceLast(FilterFresh(store, t), MAX_FINDINGS)

\* [...petFindings].sort((a, b) => b.timestamp - a.timestamp): stable, descending
\* insertion that puts a record before the records of equal timestamp
RECURSIVE InsertDescUnstable(_, _)
InsertDescUnstable(sorted, f) ==
    IF sorted = <<>> THEN <<f>>
    ELSE IF Head(sorted).timestamp > f.timestamp
         THEN <<Head(sorted)>> \o InsertDescUnstable(Tail(sorted), f)
         ELSE <<f>> \o sorted

RECURSIVE InsertDesc(_, _)
InsertDesc(sorted, f) ==
    IF sorted = <<>> THEN <<f>>
    ELSE IF Head(sorted).timestamp >= f.timestamp
         THEN <<Head(sorted)>> \o InsertDesc(Tail(sorted), f)
         ELSE <<f>> \o sorted

RECURSIVE SortNewestFirst(_)
SortNewestFirst(store) ==
    IF store = <<>> THEN <<>>
    ELSE InsertDesc(SortNewestFirst(SubSeq(store, 1, Len(store) - 1)), store[Len(store)])

----------------------------------------------------------------------------
(* Requests and responses *)

\* stored: the store held a record of this pair when the request arrived;
\* listedBefore: the count of the list() handled immediately before, or -1
Request(op, jobId, placeId, pets, rates, stored, listed) ==
    [op |-> op, at |-> now, jobId |-> jobId, placeId |-> placeId, pets |-> pets,
     rates |-> rates, stored |-> stored, listedBefore |-> listed]

Plain(op) == Request(op, Undefined, Undefined, Undefined, Undefined, FALSE, -1)

\* -1 stands for null / absent
Response(status, count, pets, uniquePets, topPets, oldest, newest) ==
    [status |-> status, count |-> count, pets |-> pets, uniquePets |-> uniquePets,
     topPets |-> topPets, oldestFinding |-> oldest, newestFinding |-> newest]

Reply(status, count) == Response(status, count, <<>>, -1, <<>>, -1, -1)

NoPrior == [request |-> Plain("none"), status |-> 0, count |-> 0, response |-> Reply(0, 0)]

\* the exchange that list() follows immediately: a submit that passed
\* validation or a read at the same clock value, or a clear
Prior ==
    IF \/ request.op = "submit" /\ request.at = now /\ response.status # 400
       \/ request.op \in {"list", "stats"} /\ request.at = now
       \/ request.op = "clear"
    THEN [request |-> request, status |-> response.status, count |-> response.count,
          response |-> response]
    ELSE NoPrior

\* the read that stats() follows immediately at the same clock value
PriorRead ==
    IF request.op \in {"list", "stats"} /\ request.at = now
    THEN [request |-> request, status |-> response.status, count |-> response.count,
          response |-> response]
    ELSE NoPrior

\* no submit is being followed
NoWatch == [active |-> FALSE, request |-> [Plain("none") EXCEPT !.at = 0], overflowed |-> FALSE]

\* a followed submit remembers whether a read since then found more than
\* MAX_FINDINGS records that were not expired
WatchAfterRead ==
    IF /\ watch.active
       /\ Cardinality({ i \in 1..Len(petFindings) :
                          now - petFindings[i].timestamp < FINDING_EXPIRY_MS }) > MAX_FINDINGS
    THEN [watch EXCEPT !.overflowed = TRUE]
    ELSE watch

\* the count a list() handled immediately before, at the same clock value, returned
ListedJustNow ==
    IF request.op = "list" /\ request.at = now THEN response.count ELSE -1

Body(jobId, placeId, pets, rates) ==
    [jobId |-> jobId, placeId |-> placeId, pets |-> pets, rates |-> rates]

ValidBodies ==
    { Body(Str("J1"), Str("P1"), Arr(<<"Cat">>), Obj({<<"Cat", 5>>})),
      Body(Str("J1"), Str("P1"), Arr(<<"Dog", "Cat">>), Undefined),
      Body(Str("J1"), Str("P2"), Arr(<<"Dog">>), Obj({<<"Dog", 3>>})),
      Body(Str("J2"), Str("P1"), Arr(<<"Cat", "7">>), Undefined),
      Body(Num(7), Str("P1"), Arr(<<"Cat">>), Undefined) }

InvalidBodies ==
    { Body(Undefined, Str("P1"), Arr(<<"Cat">>), Undefined),
      Body(Str(""), Str("P1"), Arr(<<"Cat">>), Undefined),
      Body(Str("J1"), Undefined, Arr(<<"Cat">>), Undefined),
      Body(Str("J1"), Str(""), Arr(<<"Cat">>), Undefined),
      Body(Str("J1"), Str("P1"), Undefined, Undefined),
      Body(Str("J1"), Str("P1"), Str("Cat"), Undefined),
      Body(Str("J1"), Str("P1"), Arr(<<>>), Undefined) }

SubmitBodies == ValidBodies \cup InvalidBodies

\* the two validation checks of the submit handler
MissingIds(jobId, placeId) == ~Truthy(jobId) \/ ~Truthy(placeId)

\* pets check without the length test
BadPetsAllowsEmpty(pets) == ~Truthy(pets) \/ ~IsArray(pets)

BadPets(pets) == ~Truthy(pets) \/ ~IsArray(pets) \/ Len(pets.items) = 0

----------------------------------------------------------------------------
(* Handlers *)

Init ==
    /\ petFindings = <<>>
    /\ now = 0
    /\ request = Plain("none")
    /\ response = Reply(0, 0)
    /\ before = <<>>
    /\ prior = NoPrior
    /\ inserted = <<>>
    /\ watch = NoWatch

\* push without the duplicate check
PlacedAlwaysPush(store, jobId, placeId, pets, rates, t) ==
    Append(store, Finding(jobId, placeId, pets, rates, t))

\* update that keeps the stored rates when the submission omits them
PlacedKeepsRates(store, jobId, placeId, pets, rates, t) ==
    LET existingIndex == FindIndex(store, jobId, placeId)
        finding == Finding(jobId, placeId, pets, rates, t)
    IN IF existingIndex # 0
       THEN [store EXCEPT ![existingIndex] =
                IF Truthy(rates) THEN finding
                ELSE [finding EXCEPT !.rates = store[existingIndex].rates]]
       ELSE Append(store, finding)

\* replace-or-push followed by the cleanup that the handler has commented out
PlacedThenCleanup(store, jobId, placeId, pets, rates, t) ==
    LET existingIndex == FindIndex(store, jobId, placeId)
        finding == Finding(jobId, placeId, pets, rates, t)
    IN CleanupOldFindings(IF existingIndex # 0
                          THEN [store EXCEPT ![existingIndex] = finding]
                          ELSE Append(store, finding), t)

\* update that keeps the timestamp of the stored record
PlacedKeepsTimestamp(store, jobId, placeId, pets, rates, t) ==
    LET existingIndex == FindIndex(store, jobId, placeId)
        finding == Finding(jobId, placeId, pets, rates, t)
    IN IF existingIndex # 0
       THEN [store EXCEPT ![existingIndex] =
                [finding EXCEPT !.timestamp = store[existingIndex].timestamp]]
       ELSE Append(store, finding)

\* the store after the replace-or-push of the submit handler
Placed(store, jobId, placeId, pets, rates, t) ==
    LET existingIndex == FindIndex(store, jobId, placeId)
        finding == Finding(jobId, placeId, pets, rates, t)
    IN IF existingIndex # 0
       THEN [store EXCEPT ![existingIndex] = finding]
       ELSE Append(store, finding)

\* findingCount read before the record is placed
SubmitReplyStale(jobId, store) ==
    IF SubstringThrows(jobId) THEN Reply(500, 0) ELSE Reply(200, Len(petFindings))

\* what the handler answers once the record is placed: the console.log after the
\* mutation evaluates jobId.substring(0, 8); a throw there lands in the catch
\* block, which answers 500; otherwise findingCount is petFindings.length
SubmitReply(jobId, store) ==
    IF SubstringThrows(jobId) THEN Reply(500, 0) ELSE Reply(200, Len(store))

\* POST /api/submit
PostSubmit(jobId, placeId, pets, rates) ==
    /\ before' = petFindings
    /\ prior' = NoPrior
    /\ request' = Request("submit", jobId, placeId, pets, rates,
                          \E f \in { petFindings[i] : i \in 1..Len(petFindings) } :
                              f.jobId = jobId /\ f.placeId = placeId,
                          ListedJustNow)
    /\ now' = now
    /\ IF MissingIds(jobId, placeId) \/ BadPets(pets)
       THEN /\ petFindings' = petFindings
            /\ response' = Reply(400, 0)
       ELSE /\ petFindings' = Placed(petFindings, jobId, placeId, pets, rates, now)
            /\ response' = SubmitReply(jobId, petFindings')

\* GET /api/pets
GetPets ==
    /\ before' = petFindings
    /\ prior' = Prior
    /\ request' = Plain("list")
    /\ UNCHANGED <<now, inserted>>
    /\ watch' = WatchAfterRead
    /\ petFindings' = CleanupOldFindings(petFindings, now)
    /\ response' = Response(200, Len(petFindings'), SortNewestFirst(petFindings'), -1, <<>>, -1, -1)

PetNames(store) == UNION { { store[i].pets.items[k] : k \in 1..Len(store[i].pets.items) } : i \in 1..Len(store) }

Timestamps(store) == { store[i].timestamp : i \in 1..Len(store) }

MinOf(S) == CHOOSE x \in S : \A y \in S : x <= y

MaxOf(S) == CHOOSE x \in S : \A y \in S : x >= y

\* the pets of all findings in the order the two nested forEach loops visit them
RECURSIVE AllPets(_)
AllPets(store) ==
    IF store = <<>> THEN <<>> ELSE Head(store).pets.items \o AllPets(Tail(store))

\* the property names of petFrequency in the order they were created
RECURSIVE CreationOrder(_)
CreationOrder(names) ==
    IF names = <<>> THEN <<>>
    ELSE LET rest == CreationOrder(SubSeq(names, 1, Len(names) - 1))
             last == names[Len(names)]
         IN IF \E i \in 1..Len(rest) : rest[i] = last THEN rest ELSE Append(rest, last)

\* petFrequency[pet]: one increment per visit
Frequency(visited, pet) == Cardinality({ i \in 1..Len(visited) : visited[i] = pet })

\* the array index a property name denotes ("7" is 7), -1 for any other name;
\* the table covers the names the requests of this model use
ArrayIndex(name) == IF name = "7" THEN 7 ELSE -1

RECURSIVE AscendingIndices(_)
AscendingIndices(S) ==
    IF S = {} THEN <<>>
    ELSE LET least == CHOOSE x \in S : \A y \in S : ArrayIndex(x) <= ArrayIndex(y)
         IN <<least>> \o AscendingIndices(S \ {least})

\* own-property order of an ordinary object: array-index names ascending,
\* then the other names in creation order
OwnKeys(created) ==
    AscendingIndices({ created[i] : i \in { k \in 1..Len(created) : ArrayIndex(created[k]) >= 0 } })
        \o SelectSeq(created, LAMBDA name : ArrayIndex(name) < 0)

\* Object.entries(petFrequency)
Entries(store) ==
    LET keys == OwnKeys(CreationOrder(AllPets(store)))
    IN [i \in 1..Len(keys) |-> [pet |-> keys[i], count |-> Frequency(AllPets(store), keys[i])]]

\* .sort((a, b) => b[1] - a[1]): stable, descending by count
RECURSIVE InsertByCount(_, _)
InsertByCount(sorted, e) ==
    IF sorted = <<>> THEN <<e>>
    ELSE IF Head(sorted).count >= e.count
         THEN <<Head(sorted)>> \o InsertByCount(Tail(sorted), e)
         ELSE <<e>> \o sorted

RECURSIVE SortByCount(_)
SortByCount(entries) ==
    IF entries = <<>> THEN <<>>
    ELSE InsertByCount(SortByCount(SubSeq(entries, 1, Len(entries) - 1)), entries[Len(entries)])

TOP_PETS == 10

\* .slice(0, 10).map(([pet, count]) => ({ pet, count }))
TopPets(store) ==
    LET sorted == SortByCount(Entries(store))
    IN IF Len(sorted) > TOP_PETS THEN SubSeq(sorted, 1, TOP_PETS) ELSE sorted

\* stats without the cleanupOldFindings() call
GetStatsNoCleanup ==
    /\ before' = petFindings
    /\ prior' = PriorRead
    /\ request' = Plain("stats")
    /\ UNCHANGED <<now, inserted>>
    /\ watch' = WatchAfterRead
    /\ petFindings' = petFindings
    /\ response' = Response(200, Len(petFindings'), <<>>, Cardinality(PetNames(petFindings')),
                            TopPets(petFindings'),
                            IF Len(petFindings') > 0 THEN MinOf(Timestamps(petFindings')) ELSE -1,
                            IF Len(petFindings') > 0 THEN MaxOf(Timestamps(petFindings')) ELSE -1)

\* GET /api/stats
GetStats ==
    /\ before' = petFindings
    /\ prior' = PriorRead
    /\ request' = Plain("stats")
    /\ UNCHANGED <<now, inserted>>
    /\ watch' = WatchAfterRead
    /\ petFindings' = CleanupOldFindings(petFindings, now)
    /\ response' = Response(200, Len(petFindings'), <<>>, Cardinality(PetNames(petFindings')),
                            TopPets(petFindings'),
                            IF Len(petFindings') > 0 THEN MinOf(Timestamps(petFindings')) ELSE -1,
                            IF Len(petFindings') > 0 THEN MaxOf(Timestamps(petFindings')) ELSE -1)

\* clear that reads the length after emptying the array
ClearCountsAfter ==
    /\ before' = petFindings
    /\ prior' = NoPrior
    /\ request' = Plain("clear")
    /\ UNCHANGED <<now, inserted>>
    /\ watch' = NoWatch
    /\ petFindings' = <<>>
    /\ response' = Reply(200, Len(petFindings'))

\* POST /api/clear
Clear ==
    /\ before' = petFindings
    /\ prior' = NoPrior
    /\ request' = Plain("clear")
    /\ UNCHANGED <<now, inserted>>
    /\ watch' = NoWatch
    /\ petFindings' = <<>>
    /\ response' = Reply(200, Len(petFindings))

\* the wall clock moves on between requests
Tick ==
    /\ now + TickMs <= MaxNow
    /\ now' = now + TickMs
    /\ UNCHANGED <<petFindings, request, response, before, prior, inserted, watch>>

Submit ==
    /\ \E b \in SubmitBodies : PostSubmit(b.jobId, b.placeId, b.pets, b.rates)
    /\ UNCHANGED <<inserted, watch>>

Next == Submit \/ GetPets \/ GetStats \/ Clear \/ Tick

Spec == Init /\ [][Next]_vars

----------------------------------------------------------------------------
(* Fill scenario: MAX_FINDINGS + 5 findings with pairwise distinct keys are *)
(* submitted in order into the empty store, reads and clock steps in       *)
(* between.                                                                *)

FillTotal == MAX_FINDINGS + 5

FillJobs == <<"J1", "J2", "J3", "J4", "J5", "J6", "J7", "J8">>

FillPlaces == <<"P1", "P2">>

\* the i-th key of the scenario: all pairwise distinct
FillBody(i) ==
    Body(Str(FillJobs[(((i - 1) \div 2) % Len(FillJobs)) + 1]),
         Str(FillPlaces[((i - 1) % 2) + 1]), Arr(<<"Cat">>), Undefined)

FillSubmit ==
    /\ Len(inserted) < FillTotal
    /\ LET b == FillBody(Len(inserted) + 1)
       IN PostSubmit(b.jobId, b.placeId, b.pets, b.rates)
    /\ inserted' = Append(inserted, now)
    /\ UNCHANGED watch

FillNext == FillSubmit \/ GetPets \/ GetStats \/ Tick

SpecFill == Init /\ [][FillNext]_vars

----------------------------------------------------------------------------
(* Watch scenario: one submit that passed validation is followed through    *)
(* any later submits, reads, clears and clock steps, until the store is    *)
(* cleared or its pair is submitted again.                                 *)

\* the requests of the scenario: the well-formed bodies with a string jobId
WatchBodies == { b \in ValidBodies : b.jobId.type = "string" }

\* a submit that is followed from now on
SubmitWatched ==
    /\ ~watch.active
    /\ \E b \in WatchBodies : PostSubmit(b.jobId, b.placeId, b.pets, b.rates)
    /\ watch' = [active |-> TRUE, request |-> request', overflowed |-> FALSE]
    /\ UNCHANGED inserted

\* any other submit; one of the followed pair ends the following
SubmitUnwatched ==
    /\ \E b \in WatchBodies : PostSubmit(b.jobId, b.placeId, b.pets, b.rates)
    /\ watch' = IF /\ watch.active
                   /\ watch.request.jobId = request'.jobId
                   /\ watch.request.placeId = request'.placeId
                THEN NoWatch ELSE watch
    /\ UNCHANGED inserted

WatchNext == SubmitWatched \/ SubmitUnwatched \/ GetPets \/ GetStats \/ Clear \/ Tick

SpecWatch == Init /\ [][WatchNext]_vars
----------------------------------------------------------------------------
(* Vocabulary of the properties, stated on the records themselves *)

\* position of a record in a store (records of a store are pairwise distinct)
PositionIn(store, f) == CHOOSE i \in 1..Len(store) : store[i] = f

KeysOf(store) == { <<store[i].jobId, store[i].placeId>> : i \in 1..Len(store) }

RecordsOf(store) == { store[i] : i \in 1..Len(store) }

\* expired at clock value t: t - timestamp >= 15000 ms
ExpiredAt(f, t) == t - f.timestamp >= 15000

IsRead == request.op \in {"list", "stats"}

\* the last request was a submit that passed both validation checks
Placing(req) ==
    /\ req.op = "submit"
    /\ req.jobId.type \in {"string", "number"} /\ req.jobId # Str("") /\ req.jobId # Num(0)
    /\ req.placeId.type \in {"string", "number"} /\ req.placeId # Str("") /\ req.placeId # Num(0)
    /\ req.pets.type = "array" /\ req.pets.items # <<>>

\* the last request was list(), it followed a placing submit immediately, and a
\* list() had come immediately before that submit: list, submit, list at one
\* clock value
ListSubmitList ==
    /\ request.op = "list"
    /\ Placing(prior.request)
    /\ prior.request.at = request.at
    /\ prior.request.listedBefore # -1

----------------------------------------------------------------------------
(* C1: in every reachable state the store holds at most one Finding for    *)
(* each (jobId, placeId) pair.                                             *)
C1_OnePerPair ==
    \A i, j \in 1..Len(petFindings) :
        (petFindings[i].jobId = petFindings[j].jobId
            /\ petFindings[i].placeId = petFindings[j].placeId) => i = j

\* a submit for a pair already stored has just been placed among other records
C1_Witness ==
    /\ Placing(request)
    /\ <<request.jobId, request.placeId>> \in KeysOf(before)
    /\ Len(petFindings) >= 3

(* C2: no record that list() returns or that stats() counts is expired at   *)
(* the clock value of the call, whatever the store held before the call.   *)
C2_NoExpiredRead ==
    IsRead =>
        /\ \A f \in RecordsOf(petFindings) : ~ExpiredAt(f, request.at)
        /\ \A i \in 1..Len(response.pets) : ~ExpiredAt(response.pets[i], request.at)
        /\ response.count = Len(petFindings)
        /\ request.op = "list" => response.count = Len(response.pets)

\* a read found an expired record that no earlier read had removed, next to a
\* live one that it returned
C2_Witness ==
    /\ request.op = "list"
    /\ \E f \in RecordsOf(before) : ExpiredAt(f, request.at)
    /\ Len(response.pets) >= 1

(* C3: a submit answered with an error (400 or 500) leaves the store as it  *)
(* found it.                                                               *)
C3_ErrorLeavesStore ==
    (request.op = "submit" /\ response.status \in {400, 500}) => petFindings = before

(* C4: a submit without jobId or placeId (missing or empty) or without a    *)
(* non-empty pets array is answered 400 and leaves the store unchanged.    *)
C4_ValidationRejects ==
    (/\ request.op = "submit"
     /\ \/ request.jobId \in {Undefined, Str("")}
        \/ request.placeId \in {Undefined, Str("")}
        \/ request.pets = Undefined
        \/ request.pets.type # "array"
        \/ request.pets = Arr(<<>>))
    => (response.status = 400 /\ petFindings = before)

\* a submit with an empty pets array was rejected while the store held records
C4_Witness ==
    /\ request.op = "submit"
    /\ request.pets = Arr(<<>>)
    /\ response.status = 400
    /\ Len(before) >= 2

(* C5 as stated: list, submit of a pair not in the store, list at one clock *)
(* value: the second count is the first plus one.                          *)
C5_NewPairAddsOne ==
    (ListSubmitList /\ ~prior.request.stored)
        => response.count = prior.request.listedBefore + 1

(* C5 amended: the second count is the first plus one when the first is     *)
(* below MAX_FINDINGS, and stays MAX_FINDINGS when the first is            *)
(* MAX_FINDINGS.                                                           *)
C5_NewPairAddsOneBelowCap ==
    (ListSubmitList /\ ~prior.request.stored)
        => /\ prior.request.listedBefore < MAX_FINDINGS
                => response.count = prior.request.listedBefore + 1
           /\ prior.request.listedBefore >= MAX_FINDINGS
                => response.count = MAX_FINDINGS

\* list, submit of a new pair, list: the count went from one to two
C5_Witness ==
    /\ ListSubmitList
    /\ ~prior.request.stored
    /\ prior.request.listedBefore = 1
    /\ response.count = 2

(* C6: list, submit of a pair in the store, list at one clock value: the    *)
(* count is unchanged; and whenever list() follows a submit immediately,   *)
(* at most one record returned has the submitted pair and it carries       *)
(* exactly the submitted pets and rates (the empty mapping when omitted).  *)
C6_SamePairReplaces ==
    /\ (ListSubmitList /\ prior.request.stored)
            => /\ response.count = prior.request.listedBefore
               /\ \E i \in 1..Len(response.pets) :
                     /\ response.pets[i].jobId = prior.request.jobId
                     /\ response.pets[i].placeId = prior.request.placeId
    /\ (request.op = "list" /\ Placing(prior.request) /\ prior.request.at = request.at)
            => \A i, j \in 1..Len(response.pets) :
                  (/\ response.pets[i].jobId = prior.request.jobId
                   /\ response.pets[i].placeId = prior.request.placeId
                   /\ response.pets[j].jobId = prior.request.jobId
                   /\ response.pets[j].placeId = prior.request.placeId)
                  => /\ i = j
                     /\ response.pets[i].pets = prior.request.pets
                     /\ response.pets[i].rates =
                            (IF prior.request.rates = Undefined
                             THEN Obj({}) ELSE prior.request.rates)

\* the pair was stored with rates and other pets, then resubmitted without rates
C6_Witness ==
    /\ ListSubmitList
    /\ prior.request.stored
    /\ prior.request.rates = Undefined
    /\ prior.request.pets = Arr(<<"Dog", "Cat">>)
    /\ response.count = 2

(* C7: list() returns at most MAX_FINDINGS records and stats() reports      *)
(* totalFindings <= MAX_FINDINGS.                                          *)
C7_ReadWithinCap ==
    IsRead => /\ response.count <= MAX_FINDINGS
              /\ Len(response.pets) <= MAX_FINDINGS

\* a read found more than MAX_FINDINGS live records
C7_Witness ==
    /\ IsRead
    /\ Cardinality({ f \in RecordsOf(before) : ~ExpiredAt(f, request.at) }) > MAX_FINDINGS
    /\ response.count = MAX_FINDINGS

(* C8: after list() or stats(), every live record the read dropped has a    *)
(* timestamp no larger than that of every record it kept.                  *)
C8_DropsLowestTimestamps ==
    IsRead =>
        \A d \in RecordsOf(before) :
            (~ExpiredAt(d, request.at) /\ d \notin RecordsOf(petFindings))
                => \A k \in RecordsOf(petFindings) : d.timestamp <= k.timestamp

(* C9: once MAX_FINDINGS + 5 distinct-key findings are inserted in order,   *)
(* list() reports at most MAX_FINDINGS records, and when none of the       *)
(* inserted ones has expired the records returned are exactly the last     *)
(* MAX_FINDINGS inserted.                                                  *)
C9_FillKeepsMostRecent ==
    (request.op = "list" /\ Len(inserted) = FillTotal) =>
        /\ response.count <= MAX_FINDINGS
        /\ Len(response.pets) <= MAX_FINDINGS
        /\ (\A i \in 1..FillTotal : request.at - inserted[i] < 15000) =>
              /\ response.count = MAX_FINDINGS
              /\ { <<f.jobId, f.placeId, f.timestamp>> : f \in RecordsOf(response.pets) }
                   = { <<FillBody(i).jobId, FillBody(i).placeId, inserted[i]>> :
                          i \in (FillTotal - MAX_FINDINGS + 1)..FillTotal }

\* all inserted, none expired, and no read had compacted the store before this list()
C9_Witness ==
    /\ request.op = "list"
    /\ Len(inserted) = FillTotal
    /\ \A i \in 1..FillTotal : request.at - inserted[i] < 15000
    /\ Len(before) = FillTotal
    /\ inserted[1] < inserted[FillTotal]

(* C10 as stated: the count a successful submit returns equals the count of *)
(* the list() that follows it immediately at the same clock value.         *)
C10_SubmitCountIsListCount ==
    (request.op = "list" /\ prior.request.op = "submit" /\ prior.status = 200
        /\ prior.request.at = request.at)
    => prior.count = response.count

(* C10 amended: the count a successful submit returns is the length of the  *)
(* store right after the submit; the list() that follows immediately       *)
(* reports no more than that, and reports the same when the store then     *)
(* holds no expired record and at most MAX_FINDINGS records.               *)
C10_SubmitCountIsStoreLength ==
    /\ (request.op = "submit" /\ response.status = 200)
            => response.count = Len(petFindings)
    /\ (request.op = "list" /\ prior.request.op = "submit" /\ prior.status = 200
            /\ prior.request.at = request.at)
       => /\ prior.count = Len(before)
          /\ response.count <= prior.count
          /\ ((\A f \in RecordsOf(before) : ~ExpiredAt(f, request.at))
                /\ Len(before) <= MAX_FINDINGS)
             => response.count = prior.count

\* a successful submit reported a count that included an expired record
C10_Witness ==
    /\ request.op = "list"
    /\ prior.request.op = "submit" /\ prior.status = 200
    /\ prior.request.at = request.at
    /\ \E f \in RecordsOf(before) : ExpiredAt(f, request.at)
    /\ response.count < prior.count

(* C11: clear() empties the store whatever it holds and reports how many    *)
(* records it removed; every list() handled while the store is still       *)
(* empty (no submit since the clear) returns count 0 and no records.       *)
C11_ClearEmpties ==
    /\ request.op = "clear" => (petFindings = <<>> /\ response.count = Len(before))
    /\ (request.op = "list" /\ (prior.request.op = "clear" \/ before = <<>>))
            => (petFindings = <<>> /\ response.count = 0 /\ response.pets = <<>>)
    /\ (before = <<>> /\ petFindings # <<>>) => request.op = "submit"

\* list() right after a clear() that removed an over-capacity store
C11_Witness ==
    /\ request.op = "list"
    /\ prior.request.op = "clear"
    /\ prior.count > MAX_FINDINGS
    /\ response.count = 0 /\ response.pets = <<>> /\ petFindings = <<>>

(* C12: list() returns exactly the records left in the store, by timestamp  *)
(* descending, records of equal timestamp in their store order; count is   *)
(* the number returned; the store keeps the order it had before the call.  *)
C12_ListSortedStable ==
    request.op = "list" =>
        /\ response.count = Len(response.pets)
        /\ Len(response.pets) = Len(petFindings)
        /\ RecordsOf(response.pets) = RecordsOf(petFindings)
        /\ \A i, j \in 1..Len(response.pets) :
              i < j =>
                /\ response.pets[i].timestamp >= response.pets[j].timestamp
                /\ response.pets[i].timestamp = response.pets[j].timestamp
                      => PositionIn(petFindings, response.pets[i])
                            < PositionIn(petFindings, response.pets[j])
        /\ \A i, j \in 1..Len(petFindings) :
              i < j => PositionIn(before, petFindings[i]) < PositionIn(before, petFindings[j])

\* list() returned the records in another order than the store holds them
C12_Witness ==
    /\ request.op = "list"
    /\ Len(response.pets) >= 2
    /\ response.pets # petFindings
    /\ response.pets[1].timestamp > response.pets[2].timestamp

\* how often a pet name occurs in the pets arrays of a store
Occurrences(store, name) ==
    Cardinality({ ik \in (1..Len(store)) \X (1..Len(AllPets(store))) :
                    /\ ik[2] <= Len(store[ik[1]].pets.items)
                    /\ store[ik[1]].pets.items[ik[2]] = name })

\* where aggregation meets a name first: the earliest finding, then the
\* earliest place in its pets array
FirstMet(store, name) ==
    CHOOSE ik \in (1..Len(store)) \X (1..Len(AllPets(store))) :
        /\ ik[2] <= Len(store[ik[1]].pets.items)
        /\ store[ik[1]].pets.items[ik[2]] = name
        /\ \A jl \in (1..Len(store)) \X (1..Len(AllPets(store))) :
              (jl[2] <= Len(store[jl[1]].pets.items) /\ store[jl[1]].pets.items[jl[2]] = name)
                 => (ik[1] < jl[1] \/ (ik[1] = jl[1] /\ ik[2] <= jl[2]))

MetBefore(store, a, b) ==
    \/ FirstMet(store, a)[1] < FirstMet(store, b)[1]
    \/ FirstMet(store, a)[1] = FirstMet(store, b)[1] /\ FirstMet(store, a)[2] < FirstMet(store, b)[2]

(* C13: stats().topPets lists pet names with their occurrences summed over  *)
(* the remaining records, by count descending, names of equal count in the *)
(* order aggregation met them first, at most 10 entries, the most frequent *)
(* ones.                                                                   *)
C13_TopPetsOrder ==
    request.op = "stats" =>
        LET top == response.topPets
            listed == { top[i].pet : i \in 1..Len(top) }
        IN /\ Len(top) <= 10
           /\ listed \subseteq PetNames(petFindings)
           /\ Cardinality(listed) = Len(top)
           /\ Cardinality(PetNames(petFindings)) <= 10 => listed = PetNames(petFindings)
           /\ \A i \in 1..Len(top) : top[i].count = Occurrences(petFindings, top[i].pet)
           /\ \A i, j \in 1..Len(top) :
                 i < j => /\ top[i].count >= top[j].count
                          /\ top[i].count = top[j].count
                                => MetBefore(petFindings, top[i].pet, top[j].pet)

\* the records of a store that are not expired at clock value t
LiveAt(store, t) == { f \in RecordsOf(store) : ~ExpiredAt(f, t) }

(* C14: stats() compacts as list() does: totalFindings is the number of     *)
(* live records it found, capped at MAX_FINDINGS, and equals the count of  *)
(* a list() handled immediately before or after at the same clock value;   *)
(* uniquePets is the number of distinct names in the remaining records;    *)
(* oldestFinding and newestFinding are their least and greatest timestamp, *)
(* both null when no record remains.                                       *)
C14_StatsMatchesList ==
    /\ request.op = "stats" =>
          /\ response.count = Len(petFindings)
          /\ response.count =
                (IF Cardinality(LiveAt(before, request.at)) > MAX_FINDINGS
                 THEN MAX_FINDINGS ELSE Cardinality(LiveAt(before, request.at)))
          /\ RecordsOf(petFindings) \subseteq LiveAt(before, request.at)
          /\ response.uniquePets =
                Cardinality({ name \in { AllPets(before)[i] : i \in 1..Len(AllPets(before)) } :
                                \E f \in RecordsOf(petFindings) :
                                    \E k \in 1..Len(f.pets.items) : f.pets.items[k] = name })
          /\ petFindings = <<>> => (response.oldestFinding = -1 /\ response.newestFinding = -1)
          /\ petFindings # <<>> =>
                /\ \E f \in RecordsOf(petFindings) : f.timestamp = response.oldestFinding
                /\ \E f \in RecordsOf(petFindings) : f.timestamp = response.newestFinding
                /\ \A f \in RecordsOf(petFindings) :
                      response.oldestFinding <= f.timestamp /\ f.timestamp <= response.newestFinding
          /\ (prior.request.op = "list" /\ prior.request.at = request.at)
                => (response.count = prior.count /\ petFindings = before)
    /\ (request.op = "list" /\ prior.request.op = "stats" /\ prior.request.at = request.at)
          => (response.count = prior.count /\ petFindings = before)

\* stats() removed an expired record and reported two remaining records of
\* different age
C14_Witness ==
    /\ request.op = "stats"
    /\ \E f \in RecordsOf(before) : ExpiredAt(f, request.at)
    /\ response.count = 2
    /\ response.oldestFinding >= 0
    /\ response.oldestFinding < response.newestFinding

HasKey(f, req) == f.jobId = req.jobId /\ f.placeId = req.placeId

(* C15: a successful submit removes no record and changes one slot only:    *)
(* records of other pairs stay as they are and where they are; the record  *)
(* of the submitted pair is overwritten where it was (length unchanged),   *)
(* or one record is appended at the end (length plus one).                 *)
C15_SubmitTouchesOneSlot ==
    (request.op = "submit" /\ response.status = 200) =>
        /\ Len(petFindings) >= Len(before)
        /\ \A i \in 1..Len(before) :
              /\ ~HasKey(before[i], request) => petFindings[i] = before[i]
              /\ HasKey(before[i], request) => HasKey(petFindings[i], request)
        /\ (\E i \in 1..Len(before) : HasKey(before[i], request))
              => Len(petFindings) = Len(before)
        /\ (\A i \in 1..Len(before) : ~HasKey(before[i], request))
              => /\ Len(petFindings) = Len(before) + 1
                 /\ HasKey(petFindings[Len(petFindings)], request)

\* a successful submit found an expired record in a store over capacity and
\* left both as they were
C15_Witness ==
    /\ request.op = "submit" /\ response.status = 200
    /\ Len(before) > MAX_FINDINGS
    /\ \E f \in RecordsOf(before) : ExpiredAt(f, request.at) /\ f \in RecordsOf(petFindings)
    /\ Len(petFindings) = Len(before) + 1

(* C16: handler bodies run one at a time on the shared store, in any order: *)
(* after a submit that passed validation the store holds exactly one       *)
(* record of its pair, with the pets, rates and clock value of that very   *)
(* submit; and every record in the store is either as the last handler     *)
(* found it or entirely the record of the submit just handled, so no       *)
(* record mixes two submissions and no pair is stored twice.               *)
C16_LastWriterWins ==
    LET written == [jobId |-> request.jobId, placeId |-> request.placeId,
                    pets |-> request.pets,
                    rates |-> IF request.rates = Undefined THEN Obj({}) ELSE request.rates,
                    timestamp |-> request.at]
    IN /\ Placing(request) =>
             /\ written \in RecordsOf(petFindings)
             /\ \A f \in RecordsOf(petFindings) : HasKey(f, request) => f = written
             /\ Cardinality({ i \in 1..Len(petFindings) : HasKey(petFindings[i], request) }) = 1
       /\ \A f \in RecordsOf(petFindings) :
             f \in RecordsOf(before) \/ (Placing(request) /\ f = written)
       /\ \A i, j \in 1..Len(petFindings) :
             HasKey(petFindings[i], petFindings[j]) => i = j

\* two submits of one pair with different pets handled at the same clock
\* value: the store holds the second
C16_Witness ==
    /\ Placing(request)
    /\ \E f \in RecordsOf(before) :
          /\ HasKey(f, request)
          /\ f.timestamp = request.at
          /\ f.pets # request.pets
    /\ \E f \in RecordsOf(petFindings) : HasKey(f, request) /\ f.pets = request.pets
    /\ Len(petFindings) >= 2

\* the records list() returned for the pair of the followed submit
ReturnedForWatched ==
    { i \in 1..Len(response.pets) : HasKey(response.pets[i], watch.request) }

WatchedAsSubmitted(f) ==
    /\ f.pets = watch.request.pets
    /\ f.rates = (IF watch.request.rates = Undefined THEN Obj({}) ELSE watch.request.rates)

(* C17 as stated: with no clear and no later submit of the pair, a list()   *)
(* less than 15000 ms after a submit returns one record of the pair with   *)
(* the submitted pets and rates, and a list() 15000 ms or more after it    *)
(* returns none.                                                           *)
C17_VisibleUntilExpiry ==
    (request.op = "list" /\ watch.active) =>
        IF request.at - watch.request.at < 15000
        THEN /\ Cardinality(ReturnedForWatched) = 1
             /\ \A i \in ReturnedForWatched : WatchedAsSubmitted(response.pets[i])
        ELSE ReturnedForWatched = {}

(* C17 amended: such a list() returns at most one record of the pair, and   *)
(* any it returns has the submitted pets and rates; it returns none        *)
(* 15000 ms or more after the submit; it returns one less than 15000 ms    *)
(* after it unless a read since the submit (this one included) found more  *)
(* than MAX_FINDINGS records that were not expired.                        *)
C17_VisibleUntilExpiryOrOverflow ==
    (request.op = "list" /\ watch.active) =>
        /\ Cardinality(ReturnedForWatched) <= 1
        /\ \A i \in ReturnedForWatched : WatchedAsSubmitted(response.pets[i])
        /\ request.at - watch.request.at >= 15000 => ReturnedForWatched = {}
        /\ (request.at - watch.request.at < 15000 /\ ~watch.overflowed)
              => Cardinality(ReturnedForWatched) = 1

\* the followed record is returned some time after its submit, after another
\* pair was stored and an older record had expired
C17_Witness ==
    /\ request.op = "list" /\ watch.active /\ ~watch.overflowed
    /\ request.at - watch.request.at > 0
    /\ request.at - watch.request.at < 15000
    /\ Cardinality(ReturnedForWatched) = 1
    /\ \E f \in RecordsOf(before) : ExpiredAt(f, request.at)
    /\ response.count = 2

(* C18: a read removes only what it must: with at most MAX_FINDINGS records *)
(* not expired, it leaves exactly those, unchanged and in their previous   *)
(* order; with more, it leaves exactly MAX_FINDINGS records, none expired, *)
(* each one a record it found.                                             *)
C18_CompactionMinimal ==
    IsRead =>
        /\ \A i, j \in 1..Len(petFindings) :
              i < j => PositionIn(before, petFindings[i]) < PositionIn(before, petFindings[j])
        /\ RecordsOf(petFindings) \subseteq LiveAt(before, request.at)
        /\ Cardinality(RecordsOf(petFindings)) = Len(petFindings)
        /\ IF Cardinality(LiveAt(before, request.at)) <= MAX_FINDINGS
           THEN RecordsOf(petFindings) = LiveAt(before, request.at)
           ELSE Len(petFindings) = MAX_FINDINGS

\* a read found a store over capacity whose live records were within it, and
\* kept them all
C18_Witness ==
    /\ IsRead
    /\ Len(before) > MAX_FINDINGS
    /\ Cardinality(LiveAt(before, request.at)) <= MAX_FINDINGS
    /\ Cardinality(LiveAt(before, request.at)) >= 1
    /\ Len(petFindings) = Cardinality(LiveAt(before, request.at))

(* C19: a read handled right after a read, at the same clock value, leaves  *)
(* the store as it is and reports the same count; a second list() returns  *)
(* the same records in the same order, a second stats() the same answer.   *)
C19_ReadIdempotent ==
    (IsRead /\ prior.request.op \in {"list", "stats"} /\ prior.request.at = request.at)
        => /\ petFindings = before
           /\ response.count = prior.count
           /\ request.op = prior.request.op => response = prior.response

\* a second list() at the same clock value returned the two records again
C19_Witness ==
    /\ request.op = "list"
    /\ prior.request.op = "list" /\ prior.request.at = request.at
    /\ petFindings = before
    /\ response.count = prior.count
    /\ Len(response.pets) = 2
====
